---------------------------- MODULE Spec2Model ----------------------------
(***************************************************************************)
(* A model of klippy/extras/tmc2130.py: the register/field helper, the     *)
(* TMC2130 driver object with its pipelined SPI register access, and the   *)
(* virtual endstop that reconfigures the driver around a homing move.      *)
(*                                                                         *)
(* Python integers are unbounded.  Every word the model draws is below     *)
(* 2^31, so the arithmetic below is exact; the bit operators are computed  *)
(* bit by bit, as the code's &, |, ~, << and >> are.                        *)
(***************************************************************************)
EXTENDS Integers, Sequences, FiniteSets, TLC

VARIABLES
    tmc2130,       \* the TMC2130 object's configuration attributes
    fields,        \* its FieldHelper: all_fields, field_to_register, registers
    dev,           \* the device's register file, as written over the bus
    latched,       \* the register the device answers with in the next exchange
    pc,            \* position of a get_register in progress
    trace,         \* what the current (or last) call did, in order
    endstop,       \* the TMC2130VirtualEndstop, once constructed
    current_regs,  \* the argument pair of the last set_current_regs
    calls,         \* history: the last two completed calls
    homing,        \* history: Idle/HomingActive and the words held at home_prepare
    mcu_endstop,   \* the endstop that the virtual endstop wraps
    probe,         \* the ProbeTemp object and its pause_for_temp in progress
    gcode          \* the SET_GCODE_OFFSET scripts that ProbeTemp has run

vars == <<tmc2130, fields, dev, latched, pc, trace, endstop, current_regs,
          calls, homing, mcu_endstop, probe, gcode>>

---------------------------------------------------------------------------
(* Python's integer operators on non-negative integers *)

RECURSIVE BitAnd(_, _)
BitAnd(a, b) ==
    IF a = 0 \/ b = 0 THEN 0
    ELSE (IF a % 2 = 1 /\ b % 2 = 1 THEN 1 ELSE 0) + 2 * BitAnd(a \div 2, b \div 2)

RECURSIVE BitOr(_, _)
BitOr(a, b) ==
    IF a = 0 THEN b
    ELSE IF b = 0 THEN a
    ELSE (IF a % 2 = 1 \/ b % 2 = 1 THEN 1 ELSE 0) + 2 * BitOr(a \div 2, b \div 2)

\* a & ~m
RECURSIVE BitAndNot(_, _)
BitAndNot(a, m) ==
    IF a = 0 THEN 0
    ELSE (IF a % 2 = 1 /\ m % 2 = 0 THEN 1 ELSE 0) + 2 * BitAndNot(a \div 2, m \div 2)

\* mask & -mask: the lowest set bit of mask, alone
RECURSIVE LowestSetBit(_)
LowestSetBit(mask) ==
    IF mask = 0 THEN 0
    ELSE IF mask % 2 = 1 THEN 1
    ELSE 2 * LowestSetBit(mask \div 2)

RECURSIVE bit_length(_)
bit_length(n) == IF n = 0 THEN 0 ELSE 1 + bit_length(n \div 2)

Shl(a, k) == a * 2^k
Shr(a, k) == a \div 2^k

Max(a, b) == IF a >= b THEN a ELSE b
Min(a, b) == IF a <= b THEN a ELSE b

None == -1

---------------------------------------------------------------------------
(* Module constants *)

GCONF_EN_PWM_MODE == Shl(1, 2)
GCONF_DIAG1_STALL == Shl(1, 8)

RegNames == {"GCONF", "TCOOLTHRS", "MSCNT", "CHOPCONF"}

\* tmc2130_extra.Registers: register name -> address
Registers == [r \in RegNames |->
                 CASE r = "GCONF" -> \h00
                   [] r = "TCOOLTHRS" -> \h14
                   [] r = "MSCNT" -> \h6a
                   [] r = "CHOPCONF" -> \h6c]

ReadRegisters == {"GCONF", "MSCNT", "CHOPCONF"}

---------------------------------------------------------------------------
(* Field helpers *)

\* Return the position of the first bit set in a mask
ffs(mask) == bit_length(LowestSetBit(mask)) - 1


\* The result of a call: its return value, or the exception it raised
Return(v) == [ret |-> v, err |-> ""]
Raise(e) == [ret |-> None, err |-> e]

\* FieldHelper.__init__: the reverse lookup built by the dict comprehension.
\* A later register of the iteration replaces an earlier one; `order` is the
\* order in which all_fields.items() yields the registers.
field_to_register_of(all_fields, order) ==
    LET names == UNION {DOMAIN all_fields[r] : r \in DOMAIN all_fields}
        last(f) == CHOOSE i \in 1..Len(order) :
                      /\ f \in DOMAIN all_fields[order[i]]
                      /\ \A j \in (i+1)..Len(order) : f \notin DOMAIN all_fields[order[j]]
    IN [f \in names |-> order[last(f)]]

\* Does a field name appear under two registers, or is a mask zero?
Ambiguous(all_fields) ==
    \E r1, r2 \in DOMAIN all_fields :
        r1 # r2 /\ DOMAIN all_fields[r1] \cap DOMAIN all_fields[r2] # {}
ZeroMask(all_fields) ==
    \E r \in DOMAIN all_fields : \E f \in DOMAIN all_fields[r] : all_fields[r][f] = 0

\* A constructor that refuses an ambiguous table and a zero mask
FieldHelper_init_validating(all_fields, order) ==
    IF Ambiguous(all_fields) \/ ZeroMask(all_fields)
    THEN [res |-> Raise("ConfigurationError"),
          self |-> [all_fields |-> <<>>, field_to_register |-> <<>>,
                    registers |-> <<>>]]
    ELSE [res |-> Return(None),
          self |-> [all_fields |-> all_fields,
                    field_to_register |-> field_to_register_of(all_fields, order),
                    registers |-> <<>>]]

\* FieldHelper.__init__(all_fields), registers=None: its result, and the helper
FieldHelper_init(all_fields, order) ==
    [res |-> Return(None),
     self |-> [all_fields |-> all_fields,
               field_to_register |-> field_to_register_of(all_fields, order),
               registers |-> <<>>]]

FieldHelper(all_fields, order) == FieldHelper_init(all_fields, order).self

\* get_field returning the field's bits where they stand in the word
get_field_unshifted(self, field_name, reg_value) ==
    LET reg_name == self.field_to_register[field_name]
        mask == self.all_fields[reg_name][field_name]
    IN IF reg_value = None /\ reg_name \notin DOMAIN self.registers
       THEN Raise("KeyError")
       ELSE LET word == IF reg_value = None THEN self.registers[reg_name]
                        ELSE reg_value
            IN IF ffs(mask) < 0 THEN Raise("ValueError")
               ELSE Return(BitAnd(word, mask))

\* FieldHelper.get_field(field_name, reg_value): reg_name is never passed
get_field(self, field_name, reg_value) ==
    LET reg_name == self.field_to_register[field_name]
        mask == self.all_fields[reg_name][field_name]
    IN IF reg_value = None /\ reg_name \notin DOMAIN self.registers
       THEN Raise("KeyError")
       ELSE LET word == IF reg_value = None THEN self.registers[reg_name]
                        ELSE reg_value
            IN IF ffs(mask) < 0 THEN Raise("ValueError")
               ELSE Return(Shr(BitAnd(word, mask), ffs(mask)))

\* The field's bits alone, the rest of the word dropped
set_field_value_alone(mask, field_value, reg_value) ==
    BitAnd(Shl(field_value, ffs(mask)), mask)

\* The word with a value too wide for the field stored as the field's maximum
set_field_value_saturating(mask, field_value, reg_value) ==
    BitOr(BitAndNot(reg_value, mask),
          BitAnd(Shl(Min(field_value, Shr(mask, ffs(mask))), ffs(mask)), mask))

\* The register word set_field computes
set_field_value(mask, field_value, reg_value) ==
    BitOr(BitAndNot(reg_value, mask), BitAnd(Shl(field_value, ffs(mask)), mask))

\* set_field returning the new word without storing it
set_field_unstored(self, field_name, field_value, reg_value) ==
    LET reg_name == self.field_to_register[field_name]
        word == IF reg_value # None THEN reg_value
                ELSE IF reg_name \in DOMAIN self.registers
                     THEN self.registers[reg_name] ELSE 0
        mask == self.all_fields[reg_name][field_name]
    IN IF ffs(mask) < 0
       THEN [res |-> Raise("ValueError"), self |-> self]
       ELSE [res |-> Return(set_field_value(mask, field_value, word)),
             self |-> self]

\* FieldHelper.set_field(field_name, field_value, reg_value): the call's
\* result, and the helper after it
set_field(self, field_name, field_value, reg_value) ==
    LET reg_name == self.field_to_register[field_name]
        word == IF reg_value # None THEN reg_value
                ELSE IF reg_name \in DOMAIN self.registers
                     THEN self.registers[reg_name] ELSE 0
        mask == self.all_fields[reg_name][field_name]
        new_value == set_field_value(mask, field_value, word)
    IN IF ffs(mask) < 0
       THEN [res |-> Raise("ValueError"), self |-> self]
       ELSE [res |-> Return(new_value),
             self |-> [self EXCEPT !.registers =
                          [r \in DOMAIN self.registers \cup {reg_name} |->
                              IF r = reg_name THEN new_value
                              ELSE self.registers[r]]]]

---------------------------------------------------------------------------
(* Config reading helpers *)

\* decode_signed_int subtracting half the range
decode_signed_int_half(val, bits) ==
    IF BitAnd(Shr(val, bits - 1), 1) # 0
    THEN val - Shl(1, bits - 1)
    ELSE val

\* Decode two's complement signed integer
decode_signed_int(val, bits) ==
    IF BitAnd(Shr(val, bits - 1), 1) # 0
    THEN val - Shl(1, bits)
    ELSE val

(***************************************************************************)
(* Currents are floats in the code.  Here a current is a whole number of   *)
(* 0.05 A, a sense resistor a whole number of 0.01 Ohm and vsense a whole  *)
(* number of 0.01 V, so that                                               *)
(*     32. * current * sense_resistor * sqrt(2.) / vsense                  *)
(* is x = 16 * c * r * sqrt(2) / (10 * v), and k + .5 <= x exactly when    *)
(*     ((2k+1) * 5 * v)^2 <= 2 * (16 * c * r)^2.                           *)
(* The two sides are never equal (sqrt(2) is irrational) and differ by far *)
(* more than a float's rounding, so the comparison decides int() exactly.  *)
(***************************************************************************)

\* k + .5 <= 32. * current * sense_resistor * sqrt(2.) / vsense
AtLeast(k, current, sense_resistor, vsense) ==
    ((2 * k + 1) * 5 * vsense)^2 <= 2 * (16 * current * sense_resistor)^2

\* int(x - 1. + .5): the largest k >= 0 with k + .5 <= x, and 0 when there is
\* none (int truncates towards zero)
int_cs(current, sense_resistor, vsense) ==
    LET above == (12 * current * sense_resistor) \div (5 * vsense) + 1
        ks == {k \in 0..above : AtLeast(k, current, sense_resistor, vsense)}
    IN IF ks = {} THEN 0 ELSE Cardinality(ks) - 1

current_bits(current, sense_resistor, vsense_on) ==
    LET r == sense_resistor + 2
        vsense == IF vsense_on THEN 18 ELSE 32
        cs == int_cs(current, r, vsense)
    IN Max(0, Min(31, cs))

\* get_config_current raising the sensitivity when either value is below 16
get_config_current_either(run_current, hold_current, sense_resistor) ==
    LET irun == current_bits(run_current, sense_resistor, FALSE)
        ihold == current_bits(hold_current, sense_resistor, FALSE)
    IN IF irun < 16 \/ ihold < 16
       THEN <<TRUE, current_bits(run_current, sense_resistor, TRUE),
              current_bits(hold_current, sense_resistor, TRUE)>>
       ELSE <<FALSE, irun, ihold>>

\* get_config_current, of the values config.getfloat returned
get_config_current(run_current, hold_current, sense_resistor) ==
    LET irun == current_bits(run_current, sense_resistor, FALSE)
        ihold == current_bits(hold_current, sense_resistor, FALSE)
    IN IF irun < 16 /\ ihold < 16
       THEN <<TRUE, current_bits(run_current, sense_resistor, TRUE),
              current_bits(hold_current, sense_resistor, TRUE)>>
       ELSE <<FALSE, irun, ihold>>

---------------------------------------------------------------------------
(* The SPI bus and the device behind it *)

\* The four bytes of a word, most significant first
WordBytes(w) == <<Shr(w, 24) % 256, Shr(w, 16) % 256, Shr(w, 8) % 256, w % 256>>

\* What the device shifts out during an exchange: a status byte and the
\* content of the register the previous exchange addressed
DeviceReply(d, l) == <<BitAnd(Registers[l], 15) + 1>> \o WordBytes(d[l])

RegOfAddress(a) == CHOOSE r \in RegNames : Registers[r] = a

\* The device after shifting in a frame: a frame with the write bit stores
\* its four data bytes, any frame latches the addressed register
DeviceAfter(d, frame) ==
    LET r == RegOfAddress(frame[1] % 128)
    IN IF frame[1] >= 128
       THEN [d EXCEPT ![r] = ((frame[2] * 256 + frame[3]) * 256 + frame[4]) * 256
                             + frame[5]]
       ELSE d

LatchedAfter(frame) == RegOfAddress(frame[1] % 128)

\* One transport operation of the controller, as the trace records it
SpiEvent(op, data, d, l) == [op |-> op, data |-> data, miso |-> DeviceReply(d, l)]

\* What a call threads through its steps: the bus, the device behind it, the
\* driver current and the trace of what the call did
Bus == [dev |-> dev, latched |-> latched, trace |-> <<>>,
        current_regs |-> current_regs]

spi_send(b, data) ==
    [b EXCEPT !.dev = DeviceAfter(b.dev, data),
              !.latched = LatchedAfter(data),
              !.trace = Append(b.trace, SpiEvent("spi_send", data, b.dev, b.latched))]

spi_transfer(b, data) ==
    [b EXCEPT !.dev = DeviceAfter(b.dev, data),
              !.latched = LatchedAfter(data),
              !.trace = Append(b.trace,
                               SpiEvent("spi_transfer", data, b.dev, b.latched))]

Commit(b) ==
    \E done \in {b} :
        /\ dev' = done.dev
        /\ latched' = done.latched
        /\ trace' = done.trace
        /\ current_regs' = done.current_regs

\* The history of completed calls
Call(op, args, res) == [op |-> op, args |-> args, ret |-> res.ret, err |-> res.err]
Done(c) == calls' = <<calls[2], c>>

---------------------------------------------------------------------------
(* TMC2130 printer object *)

\* The frame get_register sends twice.  The line that binds reg is not among
\* the lines of get_register; reg is the register's address, as in set_register.
get_register_data(reg_name) ==
    LET reg == Registers[reg_name]
    IN <<reg, \h00, \h00, \h00, \h00>>

\* The word decoded from the first four bytes of the response, status included
get_register_value_from_status(pr) ==
    BitOr(BitOr(BitOr(Shl(pr[1], 24), Shl(pr[2], 16)), Shl(pr[3], 8)), pr[4])

\* The word get_register returns, from the response pr of its spi_transfer
get_register_value(pr) ==
    BitOr(BitOr(BitOr(Shl(pr[2], 24), Shl(pr[3], 16)), Shl(pr[4], 8)), pr[5])

\* The frame with the register's address as get_register sends it
set_register_data_read_address(reg_name, val) ==
    LET reg == Registers[reg_name]
    IN <<BitAnd(reg, \hff), BitAnd(Shr(val, 24), \hff),
         BitAnd(Shr(val, 16), \hff), BitAnd(Shr(val, 8), \hff), BitAnd(val, \hff)>>

\* The frame set_register sends
set_register_data(reg_name, val) ==
    LET reg == Registers[reg_name]
    IN <<BitAnd(BitOr(reg, \h80), \hff), BitAnd(Shr(val, 24), \hff),
         BitAnd(Shr(val, 16), \hff), BitAnd(Shr(val, 8), \hff), BitAnd(val, \hff)>>

set_register(b, reg_name, val) == spi_send(b, set_register_data(reg_name, val))

\* set_current_regs(run_current, hold_current) is known by its calls only
set_current_regs(b, run_current, hold_current) ==
    [b EXCEPT !.current_regs = <<run_current, hold_current>>,
              !.trace = Append(b.trace, [op |-> "set_current_regs",
                                         data |-> <<run_current, hold_current>>,
                                         miso |-> <<>>])]

get_microsteps_value(mres) == Shr(256, mres)

\* The phase without the mask of the counter's ten bits
get_phase_value_unmasked(word, mres) == Shr(word, mres)

get_phase_value(word, mres) == Shr(BitAnd(word, \h3ff), mres)

Idle == pc.at = "idle"

\* get_register without its first exchange
get_register_send_skipped(reg_name, caller) ==
    /\ pc.at = "idle"
    /\ Commit(Bus)
    /\ pc' = [at |-> "sent", reg_name |-> reg_name, caller |-> caller,
              interleaved |-> FALSE]
    /\ UNCHANGED <<gcode, mcu_endstop, probe, tmc2130, fields, endstop, calls, homing>>

\* get_register, up to its spi_send (also on behalf of get_phase)
get_register_send(reg_name, caller) ==
    /\ Idle
    /\ Commit(spi_send(Bus, get_register_data(reg_name)))
    /\ pc' = [at |-> "sent", reg_name |-> reg_name, caller |-> caller,
              interleaved |-> FALSE]
    /\ UNCHANGED <<gcode, mcu_endstop, probe, tmc2130, fields, endstop, calls, homing>>

\* get_register, from its spi_transfer to its return
get_register_transfer ==
    /\ pc.at = "sent"
    /\ \E b \in {spi_transfer([Bus EXCEPT !.trace = trace],
                              get_register_data(pc.reg_name))} :
          \E word \in {get_register_value(b.trace[Len(b.trace)].miso)} :
             /\ Commit(b)
             /\ Done(Call(pc.caller, <<pc.reg_name>>,
                          Return(IF pc.caller = "get_phase"
                                 THEN get_phase_value(word, tmc2130.mres)
                                 ELSE word)))
    /\ pc' = [pc EXCEPT !.at = "idle"]
    /\ UNCHANGED <<gcode, mcu_endstop, probe, tmc2130, fields, endstop, homing>>

set_register_call(reg_name, val) ==
    /\ Idle
    /\ Commit(set_register(Bus, reg_name, val))
    /\ Done(Call("set_register", <<reg_name, val>>, Return(None)))
    /\ UNCHANGED <<gcode, mcu_endstop, probe, tmc2130, fields, pc, endstop, homing>>

get_microsteps ==
    /\ Idle
    /\ Commit(Bus)
    /\ Done(Call("get_microsteps", <<>>, Return(get_microsteps_value(tmc2130.mres))))
    /\ UNCHANGED <<gcode, mcu_endstop, probe, tmc2130, fields, pc, endstop, homing>>

\* self.fields = FieldHelper(all_fields), once
FieldHelper_call(all_fields, order) ==
    /\ Idle
    /\ calls[2].op = ""
    /\ LET r == FieldHelper_init(all_fields, order)
       IN /\ fields' = IF r.res.err = "" THEN r.self ELSE fields
          /\ Done(Call("FieldHelper", <<order>>, r.res))
    /\ Commit(Bus)
    /\ UNCHANGED <<gcode, mcu_endstop, probe, tmc2130, pc, endstop, homing>>

set_field_call(field_name, field_value, reg_value) ==
    /\ Idle
    /\ \E r \in {set_field(fields, field_name, field_value, reg_value)} :
          /\ fields' = r.self
          /\ Done(Call("set_field", <<field_name, field_value, reg_value>>, r.res))
    /\ Commit(Bus)
    /\ UNCHANGED <<gcode, mcu_endstop, probe, tmc2130, pc, endstop, homing>>

get_field_call(field_name, reg_value) ==
    /\ Idle
    /\ \E res \in {get_field(fields, field_name, reg_value)} :
          Done(Call("get_field", <<field_name, reg_value>>, res))
    /\ Commit(Bus)
    /\ UNCHANGED <<gcode, mcu_endstop, probe, tmc2130, fields, pc, endstop, homing>>

\* Another controller of the same bus addresses a register of the device
OtherAccess(reg_name) ==
    /\ latched' = reg_name
    /\ pc' = [pc EXCEPT !.interleaved = @ \/ pc.at = "sent"]
    /\ UNCHANGED <<gcode, mcu_endstop, probe, tmc2130, fields, dev, trace, endstop,
                   current_regs, calls, homing>>

---------------------------------------------------------------------------
(* Endstop wrapper that enables tmc2130 "sensorless homing" *)

SpiMcu == "mcu"

\* The mcu of the endstop that ppins.setup_pin makes for a pin
PinMcu(pin) == IF pin = "aux:PA1" THEN "aux" ELSE "mcu"

\* __init__ without the check of the endstop's mcu
TMC2130VirtualEndstop_any_mcu(self) ==
    IF self.diag1_pin = "None"
    THEN Raise("tmc2130 virtual endstop requires diag1_pin")
    ELSE Return(None)

\* TMC2130VirtualEndstop.__init__
TMC2130VirtualEndstop(self) ==
    IF self.diag1_pin = "None"
    THEN Raise("tmc2130 virtual endstop requires diag1_pin")
    ELSE IF PinMcu(self.diag1_pin) # SpiMcu
    THEN Raise("tmc2130 virtual endstop must be on same mcu")
    ELSE Return(None)

\* setup_pin: return TMC2130VirtualEndstop(self)
setup_pin ==
    /\ Idle
    /\ LET res == TMC2130VirtualEndstop(tmc2130)
       IN /\ endstop' = IF res.err = "" THEN "made" ELSE endstop
          /\ Done(Call("setup_pin", <<>>, res))
    /\ Commit(Bus)
    /\ UNCHANGED <<gcode, mcu_endstop, probe, tmc2130, fields, pc, homing>>

Forward(b, hook) ==
    [b EXCEPT !.trace = Append(b.trace, [op |-> "mcu_endstop." \o hook,
                                         data |-> <<>>, miso |-> <<>>])]

\* The homing GCONF word with the stealthChop bit left as configured
home_prepare_gconf_keeps_pwm(reg_GCONF) ==
    BitOr(reg_GCONF, GCONF_DIAG1_STALL)

home_prepare_gconf(reg_GCONF) ==
    BitOr(BitAndNot(reg_GCONF, GCONF_EN_PWM_MODE), GCONF_DIAG1_STALL)

\* home_prepare arming the wrapped endstop before the driver is reconfigured
home_prepare_forwards_first(b, self) ==
    LET b0 == Forward(b, "home_prepare")
        b1 == set_register(b0, "GCONF", home_prepare_gconf(self.reg_GCONF))
        b2 == set_current_regs(b1, self.homing_current, self.hold_current)
    IN set_register(b2, "TCOOLTHRS", \hfffff)

home_prepare_steps(b, self) ==
    LET b1 == set_register(b, "GCONF", home_prepare_gconf(self.reg_GCONF))
        b2 == set_current_regs(b1, self.homing_current, self.hold_current)
        b3 == set_register(b2, "TCOOLTHRS", \hfffff)
    IN Forward(b3, "home_prepare")

home_prepare ==
    /\ Idle
    /\ endstop = "made"
    /\ Commit(home_prepare_steps(Bus, tmc2130))
    /\ homing' = [state |-> "HomingActive", gconf |-> dev["GCONF"],
                  tcoolthrs |-> dev["TCOOLTHRS"]]
    /\ Done(Call("home_prepare", <<>>, Return(None)))
    /\ UNCHANGED <<gcode, mcu_endstop, probe, tmc2130, fields, pc, endstop>>

\* home_finalize leaving the homing threshold in TCOOLTHRS
home_finalize_keeps_threshold(b, self) ==
    LET b1 == set_register(b, "GCONF", self.reg_GCONF)
        b2 == set_current_regs(b1, self.run_current, self.hold_current)
        b3 == set_register(b2, "TCOOLTHRS", \hfffff)
    IN Forward(b3, "home_finalize")

\* home_finalize writing the GCONF word it finds in the device, stall output on
home_finalize_keeps_gconf(b, self) ==
    LET b1 == set_register(b, "GCONF", BitOr(b.dev["GCONF"], GCONF_DIAG1_STALL))
        b2 == set_current_regs(b1, self.run_current, self.hold_current)
        b3 == set_register(b2, "TCOOLTHRS", Max(0, Min(\hfffff, self.tcoolthrs)))
    IN Forward(b3, "home_finalize")

home_finalize_steps(b, self) ==
    LET b1 == set_register(b, "GCONF", self.reg_GCONF)
        b2 == set_current_regs(b1, self.run_current, self.hold_current)
        b3 == set_register(b2, "TCOOLTHRS", Max(0, Min(\hfffff, self.tcoolthrs)))
    IN Forward(b3, "home_finalize")

home_finalize ==
    /\ Idle
    /\ endstop = "made"
    /\ Commit(home_finalize_steps(Bus, tmc2130))
    /\ homing' = [homing EXCEPT !.state = "Idle"]
    /\ Done(Call("home_finalize", <<>>, Return(None)))
    /\ UNCHANGED <<gcode, mcu_endstop, probe, tmc2130, fields, pc, endstop>>

\* The attributes __init__ copies from the wrapped endstop (TimeoutError, an
\* exception class, is not an operation)
Wrappers == {"get_mcu", "add_stepper", "get_steppers", "home_start", "home_wait",
             "query_endstop", "query_endstop_wait"}

\* The wrapped endstop's own operations: their result, and the endstop after
mcu_endstop_op(self, method, arg) ==
    CASE method = "get_mcu" -> [res |-> Return(PinMcu(tmc2130.diag1_pin)), self |-> self]
      [] method = "add_stepper" ->
            [res |-> Return(None),
             self |-> [self EXCEPT !.steppers = Append(@, arg)]]
      [] method = "get_steppers" -> [res |-> Return(self.steppers), self |-> self]
      [] method = "home_start" ->
            [res |-> Return(None), self |-> [self EXCEPT !.homing = TRUE]]
      [] method = "home_wait" ->
            [res |-> Return(None), self |-> [self EXCEPT !.homing = FALSE]]
      [] method = "query_endstop" -> [res |-> Return(None), self |-> self]
      [] method = "query_endstop_wait" -> [res |-> Return(arg), self |-> self]

\* A wrapper that disables the lower stall-detection bound before home_start
Wrapper_rearming(b, method) ==
    IF method = "home_start"
    THEN Forward(set_register(b, "TCOOLTHRS", \hfffff), method)
    ELSE Forward(b, method)

\* self.<method> = self.mcu_endstop.<method>: a call of the virtual endstop's
\* attribute is a call of the wrapped endstop's bound method
Wrapper(b, method) == Forward(b, method)

wrapper_call(method, arg) ==
    /\ Idle
    /\ endstop = "made"
    /\ method \in Wrappers
    /\ Commit(Wrapper(Bus, method))
    /\ \E r \in {mcu_endstop_op(mcu_endstop, method, arg)} :
          /\ mcu_endstop' = r.self
          /\ Done(Call(method, <<arg>>, r.res))
    /\ UNCHANGED <<gcode, probe, tmc2130, fields, pc, endstop, homing>>

---------------------------------------------------------------------------
(* Configurations and inputs *)

\* The register/field table handed to FieldHelper (masks of the TMC2130)
Fields ==
    [GCONF |-> [en_pwm_mode |-> \h04, diag1_stall |-> \h100],
     TCOOLTHRS |-> [tcoolthrs |-> \hfffff],
     MSCNT |-> [mscnt |-> \h3ff],
     CHOPCONF |-> [toff |-> \h0f, hstrt |-> \h70, mres |-> \h0f000000,
                   diss2g |-> \h40000000]]

\* The orders in which a dict of these keys may be iterated
Orders(keys) ==
    {o \in [1..Cardinality(keys) -> keys] : {o[i] : i \in DOMAIN o} = keys}

GconfSamples == {\h04, \h185}
TcoolthrsSamples == {-1, \h1f4, \h100000}
\* run, hold and homing current, in mA
CurrentSamples == {<<1000, 500, 300>>}
PinSamples == {"None", "mcu:PA1", "aux:PA1"}
WordSamples == {\h104, \h7fffffff}

Configs(gconfs, tcoolthrss, currents, mress, pins) ==
    {[reg_GCONF |-> g, tcoolthrs |-> t, run_current |-> c[1],
      hold_current |-> c[2], homing_current |-> c[3], mres |-> m,
      diag1_pin |-> p] :
        g \in gconfs, t \in tcoolthrss, c \in currents, m \in mress, p \in pins}

\* The device once TMC2130.__init__ has configured it
DeviceAtStart(self, mscnt) ==
    [r \in RegNames |->
        CASE r = "GCONF" -> self.reg_GCONF
          [] r = "TCOOLTHRS" -> Max(0, Min(\hfffff, self.tcoolthrs))
          [] r = "MSCNT" -> mscnt
          [] r = "CHOPCONF" -> \h000100c3]

NoCall == [op |-> "", args |-> <<>>, ret |-> None, err |-> ""]

\* The wrapped endstop as ppins.setup_pin returns it
NoSteppers == [steppers |-> <<>>, homing |-> FALSE]

\* ProbeTemp.__init__ without t_offsets in the config: probe_offsets = None,
\* that an empty list stands for, as both are false in get_probe_offset
NoOffsets == <<>>

\* ProbeTemp.__init__: sensor_temp = 0., z_offset = 0.; no pause_for_temp in
\* progress
NoProbe == [sensor_temp |-> 0, at |-> "idle", total_time |-> 0,
            target_temp |-> 0, timeout |-> 0, heat_up |-> TRUE,
            temp_read |-> 0, ret |-> FALSE, z_offset |-> 0,
            probe_offsets |-> NoOffsets]

\* No script run yet: the sum of the Z_ADJUST amounts issued, their number,
\* and the amount and the offset of the last set_z_adjustment
NoScript == [z_adjust |-> 0, scripts |-> 0, last |-> 0, new_offset |-> 0]

\* The driver as constructed, and what stands beside it
InitDriver(configs, mscnts) ==
    /\ tmc2130 \in configs
    /\ \E o \in Orders(DOMAIN Fields) : fields = FieldHelper(Fields, o)
    /\ \E m \in mscnts : dev = DeviceAtStart(tmc2130, m)
    /\ latched = "GCONF"
    /\ pc = [at |-> "idle", reg_name |-> "GCONF", caller |-> "",
             interleaved |-> FALSE]
    /\ trace = <<>>
    /\ endstop = "none"
    /\ current_regs = <<tmc2130.run_current, tmc2130.hold_current>>
    /\ calls = <<NoCall, NoCall>>
    /\ homing = [state |-> "Idle", gconf |-> dev["GCONF"],
                 tcoolthrs |-> dev["TCOOLTHRS"]]
    /\ mcu_endstop = NoSteppers
    /\ gcode = NoScript

InitWith(configs, mscnts) ==
    /\ InitDriver(configs, mscnts)
    /\ probe = NoProbe

---------------------------------------------------------------------------
(* The driver with its virtual endstop, through homing moves *)

Init ==
    InitWith(Configs(GconfSamples, TcoolthrsSamples, CurrentSamples, {4},
                     PinSamples), {0})

Next ==
    \/ setup_pin
    \/ home_prepare
    \/ home_finalize
    \/ \E reg_name \in {"GCONF", "TCOOLTHRS"}, val \in WordSamples :
          set_register_call(reg_name, val)

Spec == Init /\ [][Next]_vars

---------------------------------------------------------------------------
(* The driver's register access on a bus it shares *)

InitBus ==
    InitWith(Configs({\h04}, {\h1f4}, CurrentSamples, {4}, {"mcu:PA1"}), {\h2a5})

NextBus ==
    \/ \E reg_name \in ReadRegisters : get_register_send(reg_name, "get_register")
    \/ get_register_transfer
    \/ \E val \in WordSamples : set_register_call("CHOPCONF", val)
    \/ \E field_value \in {1, 5} : set_field_call("toff", field_value, None)
    \/ \E reg_name \in {"GCONF", "TCOOLTHRS"} : OtherAccess(reg_name)

SpecBus == InitBus /\ [][NextBus]_vars

---------------------------------------------------------------------------
(* Microsteps and phase at every microstep resolution *)

MscntSamples == {\h00, \h155, \h7fffffff}

InitPhase ==
    InitWith(Configs({\h04}, {\h1f4}, CurrentSamples, 0..8, {"mcu:PA1"}),
             MscntSamples)

NextPhase ==
    \/ get_microsteps
    \/ get_register_send("MSCNT", "get_phase")
    \/ get_register_transfer
    \/ \E reg_name \in RegNames : OtherAccess(reg_name)

SpecPhase == InitPhase /\ [][NextPhase]_vars

---------------------------------------------------------------------------
(* The field helper, from its construction *)

\* A table with a field name under two registers, and one with a zero mask
AmbiguousFields ==
    [GCONF |-> [en_pwm_mode |-> \h04, diag1_stall |-> \h100],
     CHOPCONF |-> [diag1_stall |-> \h70, mres |-> \h0f000000]]
ZeroMaskFields ==
    [GCONF |-> [en_pwm_mode |-> \h04, diag1_stall |-> \h00],
     CHOPCONF |-> [mres |-> \h0f000000]]
TableSamples == {Fields, AmbiguousFields, ZeroMaskFields}

FieldNameSamples == {"diag1_stall", "mres"}
FieldValueSamples == {0, 1, 5, 114}

NoFields == [all_fields |-> <<>>, field_to_register |-> <<>>, registers |-> <<>>]

InitFields ==
    /\ tmc2130 \in Configs({\h04}, {\h1f4}, CurrentSamples, {4}, {"mcu:PA1"})
    /\ fields = NoFields
    /\ dev = DeviceAtStart(tmc2130, 0)
    /\ latched = "GCONF"
    /\ pc = [at |-> "idle", reg_name |-> "GCONF", caller |-> "",
             interleaved |-> FALSE]
    /\ trace = <<>>
    /\ endstop = "none"
    /\ current_regs = <<tmc2130.run_current, tmc2130.hold_current>>
    /\ calls = <<NoCall, NoCall>>
    /\ homing = [state |-> "Idle", gconf |-> dev["GCONF"],
                 tcoolthrs |-> dev["TCOOLTHRS"]]
    /\ mcu_endstop = NoSteppers
    /\ probe = NoProbe
    /\ gcode = NoScript

NextFields ==
    \/ /\ calls[2].op = ""
       /\ \E all_fields \in TableSamples : \E order \in Orders(DOMAIN all_fields) :
             FieldHelper_call(all_fields, order)
    \/ \E field_name \in FieldNameSamples \cap DOMAIN fields.field_to_register,
          field_value \in FieldValueSamples, reg_value \in {None, \h7fffffff} :
          set_field_call(field_name, field_value, reg_value)
    \/ \E field_name \in FieldNameSamples \cap DOMAIN fields.field_to_register,
          reg_value \in {None} \cup
                        (IF calls[2].op = "set_field" THEN {calls[2].ret} ELSE {}) :
          get_field_call(field_name, reg_value)

SpecFields == InitFields /\ [][NextFields]_vars

---------------------------------------------------------------------------
(* The virtual endstop with the operations it takes from the wrapped endstop *)

StepperSamples == {"stepper_x", "stepper_y"}
MaxSteppers == 2

InitOverlay ==
    InitWith(Configs({\h04}, {\h1f4}, CurrentSamples, {4}, {"mcu:PA1"}), {0})

NextOverlay ==
    \/ setup_pin
    \/ home_prepare
    \/ home_finalize
    \/ \E stepper \in StepperSamples :
          /\ Len(mcu_endstop.steppers) < MaxSteppers
          /\ wrapper_call("add_stepper", stepper)
    \/ \E method \in Wrappers \ {"add_stepper", "query_endstop_wait"} :
          wrapper_call(method, None)
    \/ \E triggered \in {0, 1} : wrapper_call("query_endstop_wait", triggered)

SpecOverlay == InitOverlay /\ [][NextOverlay]_vars

---------------------------------------------------------------------------
(* decode_signed_int on every value of every width *)

MaxBits == 8

decode_signed_int_call(val, bits) ==
    /\ calls[2].op = ""
    /\ Done(Call("decode_signed_int", <<val, bits>>,
                 Return(decode_signed_int(val, bits))))
    /\ Commit(Bus)
    /\ UNCHANGED <<gcode, mcu_endstop, probe, tmc2130, fields, pc, endstop, homing>>

InitDecode ==
    InitWith(Configs({\h04}, {\h1f4}, CurrentSamples, {4}, {"mcu:PA1"}), {0})

NextDecode ==
    \E bits \in 1..MaxBits : \E val \in 0..(2^bits - 1) :
        decode_signed_int_call(val, bits)

SpecDecode == InitDecode /\ [][NextDecode]_vars

---------------------------------------------------------------------------
(* get_config_current over the currents the config accepts *)

\* 2.0 A, the maxval of run_current and hold_current, in units of 0.05 A
MaxCurrent == 40
\* sense_resistor: the default 0.110 Ohm, and 0.05 and 0.22 Ohm
SenseResistorSamples == {5, 11, 22}

get_config_current_call(run_current, hold_current, sense_resistor) ==
    /\ calls[2].op = ""
    /\ Done(Call("get_config_current", <<run_current, hold_current, sense_resistor>>,
                 Return(get_config_current(run_current, hold_current,
                                           sense_resistor))))
    /\ Commit(Bus)
    /\ UNCHANGED <<gcode, mcu_endstop, probe, tmc2130, fields, pc, endstop, homing>>

InitCurrent ==
    InitWith(Configs({\h04}, {\h1f4}, CurrentSamples, {4}, {"mcu:PA1"}), {0})

NextCurrent ==
    \E run_current, hold_current \in 1..MaxCurrent :
        \E sense_resistor \in SenseResistorSamples :
            get_config_current_call(run_current, hold_current, sense_resistor)

SpecCurrent == InitCurrent /\ [][NextCurrent]_vars

---------------------------------------------------------------------------
(* probe_temp.py: ProbeTemp, waiting for the probe to reach a temperature *)

tmc_vars == <<tmc2130, fields, dev, latched, pc, trace, endstop, current_regs,
              calls, homing, mcu_endstop>>

\* temperature_callback, from the sensor: with self.lock: self.sensor_temp = temp
temperature_callback(temp) ==
    /\ probe' = [probe EXCEPT !.sensor_temp = temp]
    /\ UNCHANGED <<tmc_vars, gcode>>

\* with self.lock: return self.sensor_temp
get_current_temp(self) == self.sensor_temp

\* The condition of the while loop of pause_for_temp, in either direction
still_waiting(temp, target_temp, heat_up) ==
    IF heat_up THEN temp <= target_temp ELSE temp >= target_temp

\* The test giving up one pause late
timed_out_late(timeout, total_time) == timeout # 0 /\ total_time > timeout

\* if timeout and total_time >= timeout
timed_out(timeout, total_time) == timeout # 0 /\ total_time >= timeout

\* pause_for_temp(target_temp, timeout, heat_up), up to its loop
pause_for_temp(target_temp, timeout, heat_up) ==
    /\ probe.at = "idle"
    /\ probe' = [probe EXCEPT !.at = "while", !.total_time = 0,
                              !.target_temp = target_temp, !.timeout = timeout,
                              !.heat_up = heat_up]
    /\ UNCHANGED <<tmc_vars, gcode>>

\* The while condition: leave the loop and return True, or enter the body
pause_for_temp_while ==
    /\ probe.at = "while"
    /\ \E temp \in {get_current_temp(probe)} :
          probe' = IF still_waiting(temp, probe.target_temp, probe.heat_up)
                   THEN [probe EXCEPT !.at = "pause_for_time", !.temp_read = temp]
                   ELSE [probe EXCEPT !.at = "return", !.temp_read = temp,
                                      !.ret = TRUE]
    /\ UNCHANGED <<tmc_vars, gcode>>

\* The most one-second pauses of one pause_for_temp that are followed
MaxPauses == 4

\* The loop body: pause_for_time(1), total_time += 1, and return False when
\* timed out
pause_for_temp_body ==
    /\ probe.at = "pause_for_time"
    /\ probe.total_time < MaxPauses
    /\ probe' = IF timed_out(probe.timeout, probe.total_time + 1)
                THEN [probe EXCEPT !.at = "return", !.total_time = @ + 1,
                                   !.ret = FALSE]
                ELSE [probe EXCEPT !.at = "while", !.total_time = @ + 1]
    /\ UNCHANGED <<tmc_vars, gcode>>

\* Temperatures, in degrees, around the targets; timeouts in seconds
TempSamples == 0..3
TargetSamples == {1, 2}
TimeoutSamples == {0, 1, 2, 3}

InitPause ==
    InitWith(Configs({\h04}, {\h1f4}, CurrentSamples, {4}, {"mcu:PA1"}), {0})

NextPause ==
    \/ \E target_temp \in TargetSamples, timeout \in TimeoutSamples,
          heat_up \in BOOLEAN : pause_for_temp(target_temp, timeout, heat_up)
    \/ pause_for_temp_while
    \/ pause_for_temp_body
    \/ \E temp \in TempSamples : temperature_callback(temp)

\* The command's thread keeps running: the loop condition is evaluated, and
\* pause_for_time (a dwell of one second and wait_moves) returns
SpecPause ==
    /\ InitPause
    /\ [][NextPause]_vars
    /\ WF_vars(pause_for_temp_while)
    /\ WF_vars(pause_for_temp_body)

---------------------------------------------------------------------------
(* probe_temp.py: ProbeTemp, the Z adjustment for the probe's temperature *)

(***************************************************************************)
(* Offsets are floats in the code, in mm.  Here an offset is a whole       *)
(* number of 0.00002 mm, so that a Z adjustment never lies halfway between *)
(* two multiples of 0.0001 mm, the step of the "%.4f" that formats it; the *)
(* tables below interpolate to whole numbers at every sampled temperature. *)
(***************************************************************************)

\* The first index of the for loop whose segment holds offset_temp, 0 if none
segment_of(probe_offsets, offset_temp) ==
    LET found == {index \in 1..(Len(probe_offsets) - 1) :
                     /\ offset_temp > probe_offsets[index][1]
                     /\ offset_temp <= probe_offsets[index + 1][1]}
    IN IF found = {} THEN 0
       ELSE CHOOSE index \in found : \A other \in found : index <= other

\* (1. - t) * offset[index] + t * offset[index+1], t the share of the segment
interpolate(low, high, offset_temp) ==
    LET temp_delta == high[1] - low[1]
    IN ((temp_delta - (offset_temp - low[1])) * low[2]
           + (offset_temp - low[1]) * high[2]) \div temp_delta

get_probe_offset(self) ==
    LET offset_temp == get_current_temp(self)
        last_idx == Len(self.probe_offsets)
        index == segment_of(self.probe_offsets, offset_temp)
    IN IF self.probe_offsets = NoOffsets THEN 0
       ELSE IF offset_temp <= self.probe_offsets[1][1] THEN 0
       ELSE IF offset_temp >= self.probe_offsets[last_idx][1]
            THEN self.probe_offsets[last_idx][2]
       ELSE IF index # 0
            THEN interpolate(self.probe_offsets[index],
                             self.probe_offsets[index + 1], offset_temp)
       ELSE 0

\* "%.4f" % z_adj, as the amount the script carries: z_adj to the nearest
\* 0.0001 mm, five units
format_4f(z_adj) ==
    LET magnitude == IF z_adj < 0 THEN -z_adj ELSE z_adj
        rounded == ((magnitude + 2) \div 5) * 5
    IN IF z_adj < 0 THEN -rounded ELSE rounded

\* The most set_z_adjustment calls that are followed
MaxAdjustments == 4

set_z_adjustment ==
    /\ gcode.scripts < MaxAdjustments
    /\ \E new_offset \in {get_probe_offset(probe)} :
          \E z_adj \in {probe.z_offset - new_offset} :
             /\ probe' = [probe EXCEPT !.z_offset = new_offset]
             /\ gcode' = [z_adjust |-> gcode.z_adjust + format_4f(z_adj),
                          scripts |-> gcode.scripts + 1,
                          last |-> format_4f(z_adj),
                          new_offset |-> new_offset]
    /\ UNCHANGED tmc_vars

\* t_offsets of the config: (temperature, offset) points
FineOffsets == <<<<0, 0>>, <<2, 4>>, <<3, 12>>>>
CoarseOffsets == <<<<0, 0>>, <<2, 10>>, <<3, 25>>>>
OffsetTables == {NoOffsets, FineOffsets, CoarseOffsets}

InitAdjust ==
    /\ InitDriver(Configs({\h04}, {\h1f4}, CurrentSamples, {4}, {"mcu:PA1"}), {0})
    /\ \E probe_offsets \in OffsetTables :
          probe = [NoProbe EXCEPT !.probe_offsets = probe_offsets]

NextAdjust ==
    \/ \E temp \in TempSamples : temperature_callback(temp)
    \/ set_z_adjustment

SpecAdjust == InitAdjust /\ [][NextAdjust]_vars

---------------------------------------------------------------------------
(* Claims about the virtual endstop *)

Clamped(t) == IF t < 0 THEN 0 ELSE IF t > 1048575 THEN 1048575 ELSE t

PreparedThenFinalized ==
    calls[1].op = "home_prepare" /\ calls[2].op = "home_finalize"

\* C1 as stated: home_prepare immediately followed by home_finalize leaves
\* GCONF and TCOOLTHRS holding the words the driver held when home_prepare
\* was called, whatever register writes preceded it.
C1_RestoresPrePrepareWords ==
    PreparedThenFinalized =>
        /\ dev["GCONF"] = homing.gconf
        /\ dev["TCOOLTHRS"] = homing.tcoolthrs

\* C1 amended: home_prepare immediately followed by home_finalize leaves
\* GCONF holding the configured word reg_GCONF and TCOOLTHRS holding the
\* configured threshold clamped to [0, 0xFFFFF], whatever words the driver
\* held before; these are the pre-prepare words exactly when the driver held
\* the configured words when home_prepare was called.
C1_ReappliesConfiguredWords ==
    PreparedThenFinalized =>
        /\ dev["GCONF"] = tmc2130.reg_GCONF
        /\ dev["TCOOLTHRS"] = Clamped(tmc2130.tcoolthrs)
        /\ (dev["GCONF"] = homing.gconf /\ dev["TCOOLTHRS"] = homing.tcoolthrs)
             <=> (/\ homing.gconf = tmc2130.reg_GCONF
                  /\ homing.tcoolthrs = Clamped(tmc2130.tcoolthrs))

\* C1 witness: a homing pair run while the driver held words other than the
\* configured ones
C1_Witness ==
    /\ PreparedThenFinalized
    /\ homing.gconf # tmc2130.reg_GCONF
    /\ homing.tcoolthrs # Clamped(tmc2130.tcoolthrs)

\* C7: constructing the virtual endstop raises a pins.error when the driver
\* has no diag1_pin and when the endstop's mcu is not the mcu of the driver's
\* SPI bus; no endstop then exists, and the attempt writes no register.
C7_ConstructionFails ==
    /\ (tmc2130.diag1_pin = "None" \/ PinMcu(tmc2130.diag1_pin) # "mcu")
           => endstop = "none"
    /\ calls[2].op = "setup_pin" =>
           /\ trace = <<>>
           /\ tmc2130.diag1_pin = "None"
                  => calls[2].err = "tmc2130 virtual endstop requires diag1_pin"
           /\ tmc2130.diag1_pin = "aux:PA1"
                  => calls[2].err = "tmc2130 virtual endstop must be on same mcu"

\* C7 witness: a construction refused for an endstop on another mcu, after
\* registers were written
C7_Witness ==
    /\ calls[1].op = "set_register"
    /\ calls[2].op = "setup_pin"
    /\ calls[2].err = "tmc2130 virtual endstop must be on same mcu"

\* C8: home_finalize called in state Idle leaves GCONF holding the configured
\* word, the currents at (run_current, hold_current) and TCOOLTHRS holding the
\* configured threshold clamped to [0, 0xFFFFF]; called right after a
\* home_finalize it changes neither the registers nor the currents.
C8_FinalizeIdle ==
    [][(homing.state = "Idle" /\ home_finalize) =>
          /\ dev'["GCONF"] = tmc2130.reg_GCONF
          /\ dev'["TCOOLTHRS"] = Clamped(tmc2130.tcoolthrs)
          /\ current_regs' = <<tmc2130.run_current, tmc2130.hold_current>>
          /\ calls[2].op = "home_finalize"
                 => dev' = dev /\ current_regs' = current_regs]_vars

\* C8 witness: home_finalize twice in a row in state Idle, with a configured
\* threshold above 0xFFFFF
C8_Witness ==
    /\ calls[1].op = "home_finalize"
    /\ calls[2].op = "home_finalize"
    /\ homing.state = "Idle"
    /\ tmc2130.tcoolthrs > 1048575

---------------------------------------------------------------------------
(* Claims about register access *)

\* The big-endian word of the last four bytes of a five-byte response
BigEndian(pr) == ((pr[2] * 256 + pr[3]) * 256 + pr[4]) * 256 + pr[5]

\* C2: a get_register call makes exactly two exchanges on the bus, both of the
\* frame [address, 0, 0, 0, 0]; the first is a send, whose response is not
\* kept, and the word returned is the big-endian word of the last four bytes
\* of the second exchange's response.
C2_TwoExchanges ==
    calls[2].op = "get_register" /\ Idle =>
        /\ Len(trace) = 2
        /\ trace[1].op = "spi_send"
        /\ trace[2].op = "spi_transfer"
        /\ trace[1].data = <<Registers[calls[2].args[1]], 0, 0, 0, 0>>
        /\ trace[2].data = trace[1].data
        /\ calls[2].ret = BigEndian(trace[2].miso)

\* C2 witness: a get_register whose two exchanges were answered differently
C2_Witness ==
    /\ calls[2].op = "get_register"
    /\ Idle
    /\ calls[2].args[1] = "CHOPCONF"
    /\ BigEndian(trace[1].miso) # BigEndian(trace[2].miso)
    /\ calls[2].ret = BigEndian(trace[2].miso)
    /\ calls[2].ret > 65536

\* C3: on a device that answers each exchange with the register the previous
\* exchange addressed, a get_register not interleaved with another access
\* returns the device's word of the register asked for; between the two
\* exchanges another controller's access is possible.
C3_UninterleavedReadsRegister ==
    /\ (calls[2].op = "get_register" /\ Idle /\ ~pc.interleaved)
           => calls[2].ret = dev[calls[2].args[1]]
    /\ pc.at = "sent" => \A reg_name \in RegNames : ENABLED OtherAccess(reg_name)

\* C3 witness: a get_register interleaved with another access returned the
\* word of another register
C3_Witness ==
    /\ calls[2].op = "get_register"
    /\ Idle
    /\ pc.interleaved
    /\ calls[2].ret # dev[calls[2].args[1]]
    /\ calls[2].ret = dev[latched]

\* C6 as stated: the cache entry of a register is the word last read from it
\* by get_register, written to it by set_register or produced for it by
\* set_field.
C6_CacheFollowsEveryAccess ==
    LET c == calls[2]
        cached(reg_name, word) ==
            /\ reg_name \in DOMAIN fields.registers
            /\ fields.registers[reg_name] = word
    IN /\ (c.op = "get_register" /\ Idle) => cached(c.args[1], c.ret)
       /\ c.op = "set_register" => cached(c.args[1], c.args[2])
       /\ (c.op = "set_field" /\ c.err = "")
              => cached(fields.field_to_register[c.args[1]], c.ret)

\* C6 amended: the cache entry of a register is the word last produced for it
\* by set_field; get_register and set_register do not change the cache.
C6_CacheFollowsSetField ==
    /\ [](calls[2].op = "set_field" /\ calls[2].err = ""
            => LET reg_name == fields.field_to_register[calls[2].args[1]]
               IN /\ reg_name \in DOMAIN fields.registers
                  /\ fields.registers[reg_name] = calls[2].ret)
    /\ [][fields' # fields => calls'[2].op = "set_field"]_vars

\* C6 witness: a register written and read back over the bus while the cache
\* holds the word of an earlier set_field
C6_Witness ==
    /\ calls[1].op = "set_register"
    /\ calls[2].op = "get_register"
    /\ Idle
    /\ calls[2].args[1] = "CHOPCONF"
    /\ calls[2].ret = calls[1].args[2]
    /\ "CHOPCONF" \in DOMAIN fields.registers
    /\ fields.registers["CHOPCONF"] = 5

\* C10: get_microsteps returns 256 >> mres for every mres in 0..8, and
\* get_phase returns ((word & 0x3ff) >> mres) of the word get_register
\* returned, which is at most 1023 >> mres.
C10_MicrostepsAndPhase ==
    LET c == calls[2]
        e == tmc2130.mres
    IN /\ e \in 0..8
       /\ c.op = "get_microsteps" => c.ret * 2^e = 256
       /\ (c.op = "get_phase" /\ Idle) =>
              /\ c.ret = (BigEndian(trace[2].miso) % 1024) \div 2^e
              /\ c.ret <= 1023 \div 2^e

\* C10 witness: at 1 microstep, the phase of a counter word whose low ten bits
\* are all set, after get_microsteps returned 1
C10_Witness ==
    /\ tmc2130.mres = 8
    /\ calls[1].op = "get_microsteps"
    /\ calls[1].ret = 1
    /\ calls[2].op = "get_phase"
    /\ Idle
    /\ BigEndian(trace[2].miso) > 1023
    /\ calls[2].ret = 3

---------------------------------------------------------------------------
(* Claims about the field helper *)

Bit(n, i) == (n \div 2^i) % 2

\* The mask of a field of the helper, and the largest value that fits it
MaskOf(field_name) ==
    fields.all_fields[fields.field_to_register[field_name]][field_name]
MaskMax(mask) ==
    LET low == CHOOSE i \in 0..30 : Bit(mask, i) = 1 /\ \A j \in 0..(i-1) : Bit(mask, j) = 0
    IN mask \div 2^low

\* C4: for a field with mask and v in 0..(mask >> ffs(mask)), set_field of v,
\* on an explicit or a cached prior word, followed by get_field of the same
\* field on the word set_field returned (or on the cache it left) returns v.
C4_RoundTrip ==
    LET s == calls[1]
        g == calls[2]
    IN (/\ s.op = "set_field" /\ s.err = ""
        /\ g.op = "get_field" /\ g.args[1] = s.args[1]
        /\ g.args[2] \in {s.ret, None}
        /\ s.args[2] <= MaskMax(MaskOf(s.args[1])))
           => g.err = "" /\ g.ret = s.args[2]

\* C4 witness: the four-bit field at bit 24 set to 5 in a cached word with
\* ones everywhere else, and read back from the returned word
C4_Witness ==
    /\ calls[1].op = "set_field"
    /\ calls[1].args = <<"mres", 5, None>>
    /\ calls[1].ret = 1979711487
    /\ calls[2].op = "get_field"
    /\ calls[2].args = <<"mres", 1979711487>>
    /\ calls[2].ret = 5

\* C5: the word set_field returns and caches has, at every bit position
\* outside the field's mask, the bit of the prior word: the explicit word, else
\* the word cached for the register (here by the set_field just before), else 0
\* (here in a helper just built).
C5_Isolation ==
    LET p == calls[1]
        c == calls[2]
        reg_name == fields.field_to_register[c.args[1]]
        cached == /\ p.op = "set_field" /\ p.err = ""
                  /\ fields.field_to_register[p.args[1]] = reg_name
        known == c.args[3] # None \/ cached \/ p.op = "FieldHelper"
        prior == IF c.args[3] # None THEN c.args[3]
                 ELSE IF cached THEN p.ret ELSE 0
    IN (c.op = "set_field" /\ c.err = "" /\ known) =>
           /\ fields.registers[reg_name] = c.ret
           /\ \A i \in 0..30 :
                 Bit(MaskOf(c.args[1]), i) = 0 => Bit(c.ret, i) = Bit(prior, i)

\* C5 witness: a field set in the cached word that an earlier set_field left,
\* a word of ones with another field cleared
C5_Witness ==
    /\ calls[1].op = "set_field"
    /\ calls[1].args = <<"mres", 0, 2147483647>>
    /\ calls[1].ret = 1895825407
    /\ calls[2].op = "set_field"
    /\ calls[2].args = <<"diag1_stall", 0, None>>
    /\ fields.field_to_register["diag1_stall"] = "CHOPCONF"
    /\ calls[2].ret = 1895825295

\* C9 as stated: a table with a field name under two registers, or with a
\* zero mask, is refused, so no helper ever holds one.
C9_TableValidated ==
    /\ \A r1, r2 \in DOMAIN fields.all_fields :
          r1 # r2 => DOMAIN fields.all_fields[r1] \cap DOMAIN fields.all_fields[r2] = {}
    /\ \A r \in DOMAIN fields.all_fields :
          \A f \in DOMAIN fields.all_fields[r] : fields.all_fields[r][f] # 0

\* C9 amended: building the helper never fails, whatever the table: a field
\* name under two registers is looked up in the register iterated last, and a
\* zero mask is accepted; set_field and get_field of a field with a zero mask
\* then raise.
C9_AnyTableBuilt ==
    LET c == calls[2]
    IN /\ c.op = "FieldHelper" =>
              /\ c.err = ""
              /\ fields.all_fields \in TableSamples
              /\ DOMAIN fields.field_to_register
                    = UNION {DOMAIN fields.all_fields[r] : r \in DOMAIN fields.all_fields}
              /\ \A f \in DOMAIN fields.field_to_register :
                    \E i \in DOMAIN c.args[1] :
                       /\ c.args[1][i] = fields.field_to_register[f]
                       /\ f \in DOMAIN fields.all_fields[c.args[1][i]]
                       /\ \A j \in DOMAIN c.args[1] :
                             j > i => f \notin DOMAIN fields.all_fields[c.args[1][j]]
       /\ (c.op \in {"set_field", "get_field"} /\ MaskOf(c.args[1]) = 0)
              => c.err \in {"ValueError", "KeyError"}
       /\ (c.op = "set_field" /\ MaskOf(c.args[1]) = 0) => c.err = "ValueError"

\* C9 witness: a helper built from a table with a field name under two
\* registers, the name looked up in the second
C9_Witness ==
    /\ calls[2].op = "FieldHelper"
    /\ calls[2].err = ""
    /\ calls[2].args[1] = <<"GCONF", "CHOPCONF">>
    /\ fields.all_fields = AmbiguousFields
    /\ fields.field_to_register["diag1_stall"] = "CHOPCONF"

---------------------------------------------------------------------------
(* Claims about what the homing hooks do to the driver *)

\* The events of the last call's trace that are current updates
CurrentUpdates == {i \in DOMAIN trace : trace[i].op = "set_current_regs"}

\* C11 as stated: both the run current and the hold current that home_prepare
\* passes to set_current_regs are the configured homing current.
C11_HomingCurrentBoth ==
    calls[2].op = "home_prepare" =>
        /\ CurrentUpdates # {}
        /\ \A i \in CurrentUpdates :
              trace[i].data = <<tmc2130.homing_current, tmc2130.homing_current>>

\* C12 as stated: the GCONF word home_prepare writes is (G & ~(1<<2)) | (1<<8)
\* for G the word the driver holds in GCONF when home_prepare is called.
C12_FromWordHeld ==
    calls[2].op = "home_prepare" =>
        \A i \in 0..30 :
            Bit(dev["GCONF"], i) = IF i = 2 THEN 0 ELSE IF i = 8 THEN 1
                                   ELSE Bit(homing.gconf, i)

\* C12 amended: the GCONF word home_prepare writes is (G & ~(1<<2)) | (1<<8)
\* for G the configured word reg_GCONF: the first frame sent carries it, bit 2
\* clear, bit 8 set and every other bit the bit of reg_GCONF, whatever word the
\* driver holds in GCONF when home_prepare is called.
C12_FromConfiguredWord ==
    calls[2].op = "home_prepare" =>
        /\ trace[1].op = "spi_send"
        /\ trace[1].data[1] = 128
        /\ BigEndian(trace[1].data) = dev["GCONF"]
        /\ \A i \in 0..30 :
              Bit(dev["GCONF"], i) = IF i = 2 THEN 0 ELSE IF i = 8 THEN 1
                                     ELSE Bit(tmc2130.reg_GCONF, i)

\* C12 witness: home_prepare with a configured word that has the stealthChop
\* bit and other bits set, while the driver held another word in GCONF
C12_Witness ==
    /\ calls[2].op = "home_prepare"
    /\ tmc2130.reg_GCONF = 389
    /\ homing.gconf = 2147483647
    /\ dev["GCONF"] = 385

\* C13: home_prepare and home_finalize each make, in this order, the GCONF
\* write, the current update, the TCOOLTHRS write and then one forward of the
\* same hook to the wrapped endstop, and nothing else; the TCOOLTHRS word of
\* home_prepare is 0xFFFFF.
C13_HookOrder ==
    calls[2].op \in {"home_prepare", "home_finalize"} =>
        /\ Len(trace) = 4
        /\ trace[1].op = "spi_send" /\ trace[1].data[1] = 128 + Registers["GCONF"]
        /\ trace[2].op = "set_current_regs"
        /\ trace[3].op = "spi_send" /\ trace[3].data[1] = 128 + Registers["TCOOLTHRS"]
        /\ trace[4].op = "mcu_endstop." \o calls[2].op
        /\ calls[2].op = "home_prepare" => trace[3].data = <<148, 0, 15, 255, 255>>

\* C13 witness: a home_finalize after a home_prepare, its threshold word not
\* the one home_prepare wrote
C13_Witness ==
    /\ calls[1].op = "home_prepare"
    /\ calls[2].op = "home_finalize"
    /\ Len(trace) = 4
    /\ trace[3].data = <<148, 0, 0, 1, 244>>
    /\ trace[4].op = "mcu_endstop.home_finalize"

\* C14: an operation of the virtual endstop other than home_prepare and
\* home_finalize is one call of the wrapped endstop's operation of that name:
\* it writes no register, leaves the device, the driver current, the field
\* cache and the homing state (Idle/HomingActive) as they were.
C14_WrappersOnlyForward ==
    [][calls'[2].op \in Wrappers =>
          /\ trace' = <<[op |-> "mcu_endstop." \o calls'[2].op, data |-> <<>>,
                         miso |-> <<>>]>>
          /\ dev' = dev
          /\ latched' = latched
          /\ current_regs' = current_regs
          /\ fields' = fields
          /\ homing' = homing
          /\ endstop' = endstop]_vars

\* C14 witness: home_start run on the wrapped endstop while homing is active,
\* the driver still holding the homing words and the homing current
C14_Witness ==
    /\ calls[1].op = "home_prepare"
    /\ calls[2].op = "home_start"
    /\ homing.state = "HomingActive"
    /\ mcu_endstop.homing
    /\ Len(mcu_endstop.steppers) = 2
    /\ dev["TCOOLTHRS"] = 1048575
    /\ current_regs = <<tmc2130.homing_current, tmc2130.hold_current>>

---------------------------------------------------------------------------
(* Claims about fields read and written at the edges *)

\* C15 as stated: get_field without an explicit word, of a field whose register
\* has no entry in the cache, takes the word to be 0 and returns 0.
C15_AbsentEntryReadsZero ==
    LET c == calls[2]
    IN (/\ c.op = "get_field"
        /\ c.args[2] = None
        /\ fields.field_to_register[c.args[1]] \notin DOMAIN fields.registers)
           => c.err = "" /\ c.ret = 0

\* C16: set_register(reg_name, val) makes exactly one transport operation, a
\* send of five bytes, each in 0..255: the register's address with the write
\* bit 0x80 set, then the word's four bytes, most significant first; it makes
\* no transfer and returns nothing.
C16_OneWriteFrame ==
    LET c == calls[2]
    IN c.op = "set_register" =>
          /\ Len(trace) = 1
          /\ trace[1].op = "spi_send"
          /\ Len(trace[1].data) = 5
          /\ \A i \in 1..5 : trace[1].data[i] \in 0..255
          /\ trace[1].data[1] >= 128
          /\ trace[1].data[1] - 128 = Registers[c.args[1]]
          /\ BigEndian(trace[1].data) = c.args[2]
          /\ c.ret = None /\ c.err = ""

\* C16 witness: a word with bits in all four bytes written to TCOOLTHRS
C16_Witness ==
    /\ calls[2].op = "set_register"
    /\ calls[2].args = <<"TCOOLTHRS", 2147483647>>
    /\ trace = <<[op |-> "spi_send", data |-> <<148, 127, 255, 255, 255>>,
                  miso |-> trace[1].miso]>>

\* The bits of a word that a contiguous mask selects, as a number
FieldOf(word, mask) == (word \div (mask \div MaskMax(mask))) % (MaskMax(mask) + 1)

\* C17: set_field of a value wider than the field's mask does not fail: the
\* field of the new word holds the value modulo 2^width, the new word is
\* stored in the cache under the field's register and returned, and the call
\* makes no transport operation.
C17_WideValueTruncated ==
    LET c == calls[2]
        mask == MaskOf(c.args[1])
    IN (c.op = "set_field" /\ mask # 0 /\ c.args[2] > MaskMax(mask)) =>
          /\ c.err = ""
          /\ FieldOf(c.ret, mask) = c.args[2] % (MaskMax(mask) + 1)
          /\ fields.registers[fields.field_to_register[c.args[1]]] = c.ret
          /\ trace = <<>>
          /\ dev = DeviceAtStart(tmc2130, 0)
          /\ latched = "GCONF"

\* C17 witness: 114 written to the four-bit field at bit 24 of an empty cache
\* leaves 2 in the field
C17_Witness ==
    /\ calls[2].op = "set_field"
    /\ calls[2].args = <<"mres", 114, None>>
    /\ calls[2].ret = 33554432
    /\ fields.registers["CHOPCONF"] = 33554432

---------------------------------------------------------------------------
(* Claims about the config reading helpers *)

\* C18: for a width w >= 1 and v in [0, 2^w), decode_signed_int(v, w) is
\* v - 2^w when bit w-1 of v is set and v otherwise: it lies in
\* [-2^(w-1), 2^(w-1)) and is congruent to v modulo 2^w; 0xFF, 0x7F and 0x80
\* at width 8 decode to -1, 127 and -128.
C18_TwosComplement ==
    LET c == calls[2]
        v == c.args[1]
        w == c.args[2]
    IN c.op = "decode_signed_int" =>
          /\ c.err = ""
          /\ c.ret = IF v >= 2^(w-1) THEN v - 2^w ELSE v
          /\ c.ret >= -(2^(w-1)) /\ c.ret < 2^(w-1)
          /\ (c.ret - v) % 2^w = 0
          /\ c.args = <<255, 8>> => c.ret = -1
          /\ c.args = <<127, 8>> => c.ret = 127
          /\ c.args = <<128, 8>> => c.ret = -128

\* C18 witness: the most negative value of width 8
C18_Witness ==
    /\ calls[2].op = "decode_signed_int"
    /\ calls[2].args = <<128, 8>>
    /\ calls[2].ret = -128

\* Is k the current scale of a current at a sense voltage: k in 0..31, with
\* k - .5 <= x - 1 < k + .5 unless the clamp at 0 or at 31 applies
IsScale(k, current, r, vsense) ==
    /\ k \in 0..31
    /\ k > 0 => ((2 * k + 1) * 5 * vsense)^2 <= 2 * (16 * current * r)^2
    /\ k < 31 => 2 * (16 * current * r)^2 < ((2 * k + 3) * 5 * vsense)^2

\* Is the current scale at low sensitivity (0.32 V) below 16
LowBelow16(current, r) == 2 * (16 * current * r)^2 < (33 * 5 * 32)^2

\* C19: get_config_current returns irun and ihold in 0..31; vsense is true
\* exactly when the scales of both currents at low sensitivity are below 16,
\* and then irun and ihold are the scales at high sensitivity (0.18 V);
\* otherwise they are the scales at low sensitivity (0.32 V).
C19_CurrentScales ==
    LET c == calls[2]
        r == c.args[3] + 2
        v == IF c.ret[1] THEN 18 ELSE 32
    IN c.op = "get_config_current" =>
          /\ c.ret[2] \in 0..31 /\ c.ret[3] \in 0..31
          /\ c.ret[1] <=> (LowBelow16(c.args[1], r) /\ LowBelow16(c.args[2], r))
          /\ IsScale(c.ret[2], c.args[1], r, v)
          /\ IsScale(c.ret[3], c.args[2], r, v)

\* C19 witness: 0.3 A run and hold current at the default sense resistor
\* raise the sensitivity, for a scale of 9
C19_Witness ==
    /\ calls[2].op = "get_config_current"
    /\ calls[2].args = <<6, 6, 11>>
    /\ calls[2].ret = <<TRUE, 9, 9>>

---------------------------------------------------------------------------
(* Claims about the probe temperature *)

\* Has a temperature passed the target of the pause in progress: above it when
\* heating, below it when cooling
PassedTarget(temp) ==
    IF probe.heat_up THEN temp > probe.target_temp ELSE temp < probe.target_temp

PauseRunning == probe.at \in {"while", "pause_for_time"}

C21_AdjustmentsSumToOffset ==
    /\ gcode.z_adjust = -probe.z_offset
    /\ gcode.scripts > 0 => probe.z_offset = gcode.new_offset

=============================================================================
